---- MODULE Spec2Model ----
(***************************************************************************)
(* Model of drivers/input/ir/ir-configfs.c: the configfs tree of IR remote *)
(* maps (remotes -> remote -> keymap) and input_ir_translate(), which      *)
(* turns a decoded (protocol, device, command) into key events on the      *)
(* input device of every remote holding a matching keymap.                 *)
(*                                                                         *)
(* Two specifications share the state:                                     *)
(*   Spec      every handler runs to completion (one caller at a time);    *)
(*   ConcSpec  the handlers are cut at their shared-memory accesses and    *)
(*             interleave: one configfs caller and two translate callers.  *)
(***************************************************************************)
EXTENDS Integers, Sequences, FiniteSets, TLC

\* ------------------------------------------------------------------ bounds

\* Number of handler calls in one behaviour of Spec.
MaxOps == 6

\* Number of configfs calls and of translate calls in one behaviour of ConcSpec.
MaxCfsCalls == 3
MaxTrCalls == 2

\* linux/input.h has KEY_MAX = 0x2ff and the compiler INT_MAX = 2^31-1, with a
\* 32-bit unsigned long on the MPC5200.  The model keeps their order
\* (KEY_MAX < INT_MAX < ULONG_MOD) on a 4-bit unsigned long.
KEY_MAX == 3
INT_MAX == 7
ULONG_MOD == 16

GroupNames == {"g1", "g2"}
EntryNames == {"a", "b"}
Keys == 0 .. (KEY_MAX - 1)

\* Attribute pages (the text written to an attribute file), as character
\* sequences; the buffer configfs passes is NUL-terminated after them.
KeycodePages ==
    { <<"0">>, <<"1">>, <<"2">>, <<"3">>, <<"1", "\n">>, <<"8">>, <<"x">>,
      <<"\n">> }
TuplePages == { <<"0">>, <<"1">>, <<"8">>, <<"1", "x">>, << >> }
TupleVals == {0, 1}
Attrs == {"protocol", "device", "command", "keycode"}
PagesOf(attr) == IF attr = "keycode" THEN KeycodePages ELSE TuplePages

\* ------------------------------------------------------------------- state

VARIABLES
    cg_children,    \* input_ir_remotes.su_group.cg_children: list of remotes
    remoteMem,      \* remoteMem[g]: struct remote of name g is allocated
    children,       \* children[g]: remote g's cg_children, list of keymaps
    keymap,         \* keymap[g][e]: struct keymap (plus the history field
                    \* "written": a keycode write took the tmp < KEY_MAX arm)
    input,          \* input[g]: remote g's input_dev: allocated, keybit
    input_dev_list, \* names of the input devices registered with the host
    su_mutex,       \* input_ir_remotes.su_mutex: "free" or its holder
    cfs,            \* ConcSpec: the configfs caller's call in progress
    tr,             \* ConcSpec: tr[t], translate caller t's call in progress
    last,           \* the call that ran last (Spec), with its arguments
    ret,            \* what that call returned
    events,         \* the input events that call reported, in order
    page_out,       \* the page an attribute read (item_show) filled
    nops,           \* calls made so far (ConcSpec: configfs calls)
    ntr             \* ConcSpec: translate calls made so far

vars == << cg_children, remoteMem, children, keymap, input, input_dev_list,
           su_mutex, cfs, tr, last, ret, events, page_out, nops, ntr >>

tree == << cg_children, remoteMem, children, keymap, input, input_dev_list >>

\* ----------------------------------------------------------------- helpers

Range(s) == { s[i] : i \in 1 .. Len(s) }

Remove(s, x) == SelectSeq(s, LAMBDA y : y # x)

OK(n) == [err |-> "OK", n |-> n]
Err(e) == [err |-> e, n |-> 0]

\* kzalloc(sizeof(struct keymap)): every field zero.
ZeroKeymap ==
    [protocol |-> 0, device |-> 0, command |-> 0, keycode |-> 0,
     written |-> FALSE]

NoInput == [alloc |-> FALSE, keybit |-> {}]

Live(g) == g \in Range(cg_children)
LiveEntry(g, e) == Live(g) /\ e \in Range(children[g])

\* ------------------------------------------------- the input core's calls

input_allocate_device == [alloc |-> TRUE, keybit |-> {}]

\* Drops the caller's reference; it does not unregister a registered device.
input_free_device(dev) == [dev EXCEPT !.alloc = FALSE]

set_bit(nr, dev) == [dev EXCEPT !.keybit = @ \cup {nr}]

clear_bit(nr, dev) == [dev EXCEPT !.keybit = @ \ {nr}]

\* --------------------------------------------------------- attribute write

IsDigit(c) == c \in {"0", "1", "2", "3", "4", "5", "6", "7", "8", "9"}

DigitVal(c) ==
    CASE c = "0" -> 0 [] c = "1" -> 1 [] c = "2" -> 2 [] c = "3" -> 3
      [] c = "4" -> 4 [] c = "5" -> 5 [] c = "6" -> 6 [] c = "7" -> 7
      [] c = "8" -> 8 [] c = "9" -> 9

RECURSIVE strtoul_from(_, _, _)
strtoul_from(page, i, acc) ==
    IF i <= Len(page) /\ IsDigit(page[i])
    THEN strtoul_from(page, i + 1, (acc * 10 + DigitVal(page[i])) % ULONG_MOD)
    ELSE [val |-> acc, endp |-> i]

\* simple_strtoul(p, &p, 10): the value of the leading digits, in unsigned
\* long arithmetic, and the position of the first character not converted.
simple_strtoul(page) == strtoul_from(page, 1, 0)

\* *p && *p != '\n' at the end position: a character follows the digits and
\* it is not a newline (past the page is the terminating NUL).
TrailingGarbage(page, endp) == endp <= Len(page) /\ page[endp] # "\n"

OverIntMaxWide(tmp) == tmp >= INT_MAX
OverIntMaxNever(tmp) == FALSE
OverIntMax(tmp) == tmp > INT_MAX

\* field = tmp: the int an unsigned long becomes when assigned to an int
\* field of struct keymap (the same width, two's complement).
ToInt(tmp) == IF tmp >= ULONG_MOD \div 2 THEN tmp - ULONG_MOD ELSE tmp

KeycodeInRangeIncl(tmp) == tmp <= KEY_MAX
KeycodeInRange(tmp) == tmp < KEY_MAX

\* The assignments of item_store once the value is parsed and in int range:
\* the new keymap and the new input device of the owning remote.
StoreFieldSetsBit(km, dev, attr, tmp) ==
    CASE attr = "protocol" ->
            [km |-> [km EXCEPT !.protocol = ToInt(tmp)], dev |-> dev]
      [] attr = "device" ->
            [km |-> [km EXCEPT !.device = ToInt(tmp)],
             dev |-> set_bit(tmp, dev)]
      [] attr = "command" ->
            [km |-> [km EXCEPT !.command = ToInt(tmp)], dev |-> dev]
      [] OTHER ->
            IF KeycodeInRange(tmp)
            THEN [km |-> [km EXCEPT !.keycode = ToInt(tmp), !.written = TRUE],
                  dev |-> set_bit(tmp, dev)]
            ELSE [km |-> km, dev |-> dev]
StoreField(km, dev, attr, tmp) ==
    CASE attr = "protocol" ->
            [km |-> [km EXCEPT !.protocol = ToInt(tmp)], dev |-> dev]
      [] attr = "device" ->
            [km |-> [km EXCEPT !.device = ToInt(tmp)], dev |-> dev]
      [] attr = "command" ->
            [km |-> [km EXCEPT !.command = ToInt(tmp)], dev |-> dev]
      [] OTHER ->
            IF KeycodeInRange(tmp)
            THEN [km |-> [km EXCEPT !.keycode = ToInt(tmp), !.written = TRUE],
                  dev |-> set_bit(tmp, dev)]
            ELSE [km |-> km, dev |-> dev]

\* item_store as a whole: what it returns and what it leaves behind.
item_store(km, dev, attr, page) ==
    LET r == simple_strtoul(page) IN
    IF TrailingGarbage(page, r.endp)
    THEN [ret |-> Err("EINVAL"), km |-> km, dev |-> dev]
    ELSE IF OverIntMax(r.val)
    THEN [ret |-> Err("ERANGE"), km |-> km, dev |-> dev]
    ELSE LET s == StoreField(km, dev, attr, r.val) IN
         [ret |-> OK(Len(page)), km |-> s.km, dev |-> s.dev]

DigitChar(d) ==
    CASE d = 0 -> "0" [] d = 1 -> "1" [] d = 2 -> "2" [] d = 3 -> "3"
      [] d = 4 -> "4" [] d = 5 -> "5" [] d = 6 -> "6" [] d = 7 -> "7"
      [] d = 8 -> "8" [] d = 9 -> "9"

RECURSIVE Decimal(_)
Decimal(n) ==
    IF n < 10 THEN << DigitChar(n) >>
    ELSE Decimal(n \div 10) \o << DigitChar(n % 10) >>

\* sprintf(page, "%d\n", value): the characters written to the page.
sprintf_d_nl(value) ==
    (IF value < 0 THEN << "-" >> \o Decimal(-value) ELSE Decimal(value))
    \o << "\n" >>

\* item_show: the page for one attribute of a keymap.
item_show_command_as_keycode(km, attr) ==
    IF attr = "protocol" THEN sprintf_d_nl(km.protocol)
    ELSE IF attr = "device" THEN sprintf_d_nl(km.device)
    ELSE sprintf_d_nl(km.keycode)
item_show(km, attr) ==
    IF attr = "protocol" THEN sprintf_d_nl(km.protocol)
    ELSE IF attr = "device" THEN sprintf_d_nl(km.device)
    ELSE IF attr = "command" THEN sprintf_d_nl(km.command)
    ELSE sprintf_d_nl(km.keycode)

\* keymap_release: clear_bit(keymap->keycode, remote->input->keybit).
keymap_release(km, dev) == clear_bit(km.keycode, dev)

\* ------------------------------------------------------------ make / release

\* make_keymap: kzalloc, which may fail, then config_item_init_type_name.
make_keymap(outcome) ==
    IF outcome = "nomem"
    THEN [ret |-> Err("ENOMEM"), made |-> FALSE]
    ELSE [ret |-> OK(0), made |-> TRUE]

\* The free_input label of make_remote.
free_input_skipped(dev) == dev
free_input(dev) == input_free_device(dev)

\* make_remote.  outcome picks which of its three fallible calls fails:
\* kzalloc, input_allocate_device, input_register_device ("EREG" stands for
\* the error code that call returned).  mem: struct remote is still
\* allocated on return; dev: the input device; reg: it is registered.
make_remote(outcome) ==
    IF outcome = "nomem_remote"
    THEN [ret |-> Err("ENOMEM"), mem |-> FALSE, dev |-> NoInput, reg |-> FALSE]
    ELSE IF outcome = "nomem_input"
    THEN [ret |-> Err("ENOMEM"), mem |-> FALSE, dev |-> NoInput, reg |-> FALSE]
    ELSE IF outcome = "reg_fail"
    THEN [ret |-> Err("EREG"), mem |-> FALSE,
          dev |-> free_input(input_allocate_device), reg |-> FALSE]
    ELSE [ret |-> OK(0), mem |-> TRUE, dev |-> input_allocate_device,
          reg |-> TRUE]

MakeRemoteOutcomes == {"ok", "nomem_remote", "nomem_input", "reg_fail"}
MakeKeymapOutcomes == {"ok", "nomem"}

\* remote_release: input_free_device(remote->input); kfree(remote).
remote_release(dev) == [dev |-> input_free_device(dev), mem |-> FALSE]

\* ------------------------------------------------------------------ translate

NegativeSignals == { <<-1, 0, 0>>, <<0, -1, 0>>, <<0, 0, -1>> }
Signals == (TupleVals \X TupleVals \X TupleVals) \cup NegativeSignals

IrEvent(what, value) ==
    [type |-> "ir", dev |-> "ir", code |-> what, value |-> value]
KeyEvent(g, code, value) ==
    [type |-> "key", dev |-> g, code |-> code, value |-> value]
SyncEvent(dev) == [type |-> "sync", dev |-> dev, code |-> 0, value |-> 0]

\* The raw IR event reported on the receiving device before the search.
RawReportSyncFirst(p, d, c) ==
    << SyncEvent("ir"), IrEvent("IR_PROTOCOL", p), IrEvent("IR_DEVICE", d),
       IrEvent("IR_COMMAND", c) >>
RawReport(p, d, c) ==
    << IrEvent("IR_PROTOCOL", p), IrEvent("IR_DEVICE", d),
       IrEvent("IR_COMMAND", c), SyncEvent("ir") >>

MatchesIgnoringCommand(km, p, d, c) == km.protocol = p /\ km.device = d
Matches(km, p, d, c) == km.protocol = p /\ km.device = d /\ km.command = c

\* What the loop body reports for one keymap of remote g.
ReportForNoSync(g, km, p, d, c) ==
    IF Matches(km, p, d, c) THEN << KeyEvent(g, km.keycode, 1) >> ELSE << >>
ReportFor(g, km, p, d, c) ==
    IF Matches(km, p, d, c)
    THEN << KeyEvent(g, km.keycode, 1), SyncEvent(g) >>
    ELSE << >>

\* The inner list_for_each_entry, over the keymaps of remote g in list order.
RECURSIVE ScanKeymaps(_, _, _, _, _, _)
ScanKeymaps(g, items, kms, p, d, c) ==
    IF items = << >> THEN << >>
    ELSE ReportFor(g, kms[g][Head(items)], p, d, c)
         \o ScanKeymaps(g, Tail(items), kms, p, d, c)

\* The outer list_for_each_entry, over the remotes in list order.
RECURSIVE ScanRemotes(_, _, _, _, _, _)
ScanRemotes(groups, chl, kms, p, d, c) ==
    IF groups = << >> THEN << >>
    ELSE ScanKeymaps(Head(groups), chl[Head(groups)], kms, p, d, c)
         \o ScanRemotes(Tail(groups), chl, kms, p, d, c)

\* input_ir_translate as a whole: every event it reports, in order.
input_ir_translate(groups, chl, kms, p, d, c) ==
    RawReport(p, d, c) \o ScanRemotes(groups, chl, kms, p, d, c)

\* ------------------------------------------- configfs (the namespace layer)

\* mkdir of a name that exists fails with EEXIST.
NameTakenNever(list, name) == FALSE
NameTaken(list, name) == name \in Range(list)

\* Teardown of a remote: keymap_release for every keymap it holds.
RECURSIVE ReleaseAll(_, _, _)
ReleaseAll(items, kms, dev) ==
    IF items = << >> THEN dev
    ELSE ReleaseAll(Tail(items), kms, keymap_release(kms[Head(items)], dev))

Call(op, g, e, attr, page, sig, outcome) ==
    [op |-> op, g |-> g, e |-> e, attr |-> attr, page |-> page, sig |-> sig,
     outcome |-> outcome]

NoCall == Call("none", "-", "-", "-", << >>, << >>, "-")

\* A caller between calls.
CfsIdle ==
    [pc |-> "idle", g |-> "-", e |-> "-", attr |-> "-", tmp |-> 0,
     outcome |-> "-"]
TrIdle == [pc |-> "idle", sig |-> << >>, gi |-> 0, ji |-> 0, evs |-> << >>]

Translators == {"t1", "t2"}

\* ----------------------------------------------------------------------- Init

Init ==
    /\ cg_children = << >>
    /\ remoteMem = [g \in GroupNames |-> FALSE]
    /\ children = [g \in GroupNames |-> << >>]
    /\ keymap = [g \in GroupNames |-> [e \in EntryNames |-> ZeroKeymap]]
    /\ input = [g \in GroupNames |-> NoInput]
    /\ input_dev_list = {}
    /\ su_mutex = "free"
    /\ cfs = CfsIdle
    /\ tr = [t \in Translators |-> TrIdle]
    /\ last = NoCall
    /\ ret = OK(0)
    /\ events = << >>
    /\ page_out = << >>
    /\ nops = 0
    /\ ntr = 0

\* ------------------------------------------- Spec: handlers run to completion

Done(call, r, ev) ==
    /\ last' = call
    /\ ret' = r
    /\ events' = ev
    /\ page_out' = << >>
    /\ nops' = nops + 1
    /\ UNCHANGED << su_mutex, cfs, tr, ntr >>

\* mkdir remotes/g
create_group(g, outcome) ==
    /\ nops < MaxOps
    /\ IF NameTaken(cg_children, g)
       THEN /\ UNCHANGED tree
            /\ Done(Call("create_group", g, "-", "-", << >>, << >>, outcome),
                    Err("EEXIST"), << >>)
       ELSE LET r == make_remote(outcome) IN
            /\ remoteMem' = [remoteMem EXCEPT ![g] = r.mem]
            /\ input' = [input EXCEPT ![g] = r.dev]
            /\ input_dev_list' =
                  IF r.reg THEN input_dev_list \cup {g} ELSE input_dev_list
            /\ cg_children' =
                  IF r.ret.err = "OK" THEN Append(cg_children, g)
                  ELSE cg_children
            /\ UNCHANGED << children, keymap >>
            /\ Done(Call("create_group", g, "-", "-", << >>, << >>, outcome),
                    r.ret, << >>)

\* rmdir remotes/g
remove_group(g) ==
    /\ nops < MaxOps
    /\ IF ~Live(g)
       THEN /\ UNCHANGED tree
            /\ Done(Call("remove_group", g, "-", "-", << >>, << >>, "-"),
                    Err("ENOENT"), << >>)
       ELSE LET dev == ReleaseAll(children[g], keymap[g], input[g])
                r == remote_release(dev)
            IN
            /\ keymap' = [keymap EXCEPT ![g] = [e \in EntryNames |-> ZeroKeymap]]
            /\ children' = [children EXCEPT ![g] = << >>]
            /\ cg_children' = Remove(cg_children, g)
            /\ input' = [input EXCEPT ![g] = r.dev]
            /\ remoteMem' = [remoteMem EXCEPT ![g] = r.mem]
            /\ UNCHANGED input_dev_list
            /\ Done(Call("remove_group", g, "-", "-", << >>, << >>, "-"),
                    OK(0), << >>)

\* mkdir remotes/g/e
create_entry(g, e, outcome) ==
    /\ nops < MaxOps
    /\ Live(g)
    /\ IF NameTaken(children[g], e)
       THEN /\ UNCHANGED tree
            /\ Done(Call("create_entry", g, e, "-", << >>, << >>, outcome),
                    Err("EEXIST"), << >>)
       ELSE LET r == make_keymap(outcome) IN
            /\ keymap' = [keymap EXCEPT ![g][e] = ZeroKeymap]
            /\ children' =
                  IF r.made THEN [children EXCEPT ![g] = Append(@, e)]
                  ELSE children
            /\ UNCHANGED << cg_children, remoteMem, input, input_dev_list >>
            /\ Done(Call("create_entry", g, e, "-", << >>, << >>, outcome),
                    r.ret, << >>)

\* rmdir remotes/g/e
remove_entry(g, e) ==
    /\ nops < MaxOps
    /\ Live(g)
    /\ IF ~LiveEntry(g, e)
       THEN /\ UNCHANGED tree
            /\ Done(Call("remove_entry", g, e, "-", << >>, << >>, "-"),
                    Err("ENOENT"), << >>)
       ELSE /\ input' = [input EXCEPT ![g] = keymap_release(keymap[g][e], @)]
            /\ keymap' = [keymap EXCEPT ![g][e] = ZeroKeymap]
            /\ children' = [children EXCEPT ![g] = Remove(@, e)]
            /\ UNCHANGED << cg_children, remoteMem, input_dev_list >>
            /\ Done(Call("remove_entry", g, e, "-", << >>, << >>, "-"),
                    OK(0), << >>)

\* write(remotes/g/e/attr, page)
store(g, e, attr, page) ==
    /\ nops < MaxOps
    /\ LiveEntry(g, e)
    /\ LET r == item_store(keymap[g][e], input[g], attr, page) IN
       /\ keymap' = [keymap EXCEPT ![g][e] = r.km]
       /\ input' = [input EXCEPT ![g] = r.dev]
       /\ UNCHANGED << cg_children, remoteMem, children, input_dev_list >>
       /\ Done(Call("store", g, e, attr, page, << >>, "-"), r.ret, << >>)

\* read(remotes/g/e/attr)
show(g, e, attr) ==
    /\ nops < MaxOps
    /\ LiveEntry(g, e)
    /\ UNCHANGED tree
    /\ last' = Call("show", g, e, attr, << >>, << >>, "-")
    /\ page_out' = item_show(keymap[g][e], attr)
    /\ ret' = OK(Len(page_out'))
    /\ events' = << >>
    /\ nops' = nops + 1
    /\ UNCHANGED << su_mutex, cfs, tr, ntr >>

\* input_ir_translate(dev, p, d, c) from the receiver's decoder
translate(p, d, c) ==
    /\ nops < MaxOps
    /\ UNCHANGED tree
    /\ Done(Call("translate", "-", "-", "-", << >>, <<p, d, c>>, "-"), OK(0),
            input_ir_translate(cg_children, children, keymap, p, d, c))

Next ==
    \/ \E g \in GroupNames, o \in MakeRemoteOutcomes : create_group(g, o)
    \/ \E g \in GroupNames : remove_group(g)
    \/ \E g \in GroupNames, e \in EntryNames, o \in MakeKeymapOutcomes :
          create_entry(g, e, o)
    \/ \E g \in GroupNames, e \in EntryNames : remove_entry(g, e)
    \/ \E g \in GroupNames, e \in EntryNames, attr \in Attrs :
          \E page \in PagesOf(attr) : store(g, e, attr, page)
    \/ \E g \in GroupNames, e \in EntryNames, attr \in Attrs : show(g, e, attr)
    \/ \E sig \in Signals : translate(sig[1], sig[2], sig[3])

Spec == Init /\ [][Next]_vars

\* ================================================== properties, under Spec

LiveEntries(g) == IF Live(g) THEN Range(children[g]) ELSE {}

KeyEventsOn(evs, g) ==
    SelectSeq(evs, LAMBDA ev : ev.type = "key" /\ ev.dev = g)

\* C1: every live keymap whose keycode was set to k has bit k in the keybit
\* of its remote's input device, whatever happened to the other keymaps.
C1_SetKeycodeHasItsBit ==
    \A g \in GroupNames : \A e \in LiveEntries(g) :
        keymap[g][e].written => keymap[g][e].keycode \in input[g].keybit

\* C2: no key bit leaks: a bit of a live remote's keybit is the keycode of
\* one of its live keymaps.
C2_NoLeakedKeyBit ==
    \A g \in GroupNames : Live(g) =>
        \A k \in input[g].keybit :
            \E e \in LiveEntries(g) : keymap[g][e].keycode = k

\* The call that ran last wrote a well-formed keycode page whose value is in
\* int range and not below KEY_MAX.
KeycodeWriteOutOfRange ==
    /\ last.op = "store"
    /\ last.attr = "keycode"
    /\ ~TrailingGarbage(last.page, simple_strtoul(last.page).endp)
    /\ simple_strtoul(last.page).val >= KEY_MAX
    /\ simple_strtoul(last.page).val <= INT_MAX

\* C3 as claimed: a keycode write of KEY_MAX <= v <= INT_MAX returns
\* OutOfRange and changes neither the keymap nor the keybit.
C3_OutOfRangeKeycodeRejected ==
    [][KeycodeWriteOutOfRange' =>
          ret'.err = "ERANGE" /\ keymap' = keymap /\ input' = input]_vars

\* C3 as amended: such a write returns success (the count of bytes written)
\* and changes neither the keymap nor the keybit.
C3_OutOfRangeKeycodeIgnored ==
    [][KeycodeWriteOutOfRange' =>
          /\ ret' = OK(Len(last'.page))
          /\ keymap' = keymap
          /\ input' = input]_vars

\* C3 witness: an ignored write of KEY_MAX to a keymap that holds keycode 1.
C3_Witness ==
    /\ KeycodeWriteOutOfRange
    /\ ret.err = "OK"
    /\ keymap[last.g][last.e].written
    /\ keymap[last.g][last.e].keycode = 1
    /\ input[last.g].keybit = {1}

\* The live keymaps of g whose tuple equals sig (and, with k, whose keycode
\* is k), spelled out on the fields.
TupleEquals(g, e, sig) ==
    /\ keymap[g][e].protocol = sig[1]
    /\ keymap[g][e].device = sig[2]
    /\ keymap[g][e].command = sig[3]

\* C4: translate(p, d, c) reports one key-down per live keymap whose tuple is
\* (p, d, c), on that keymap's remote and with its keycode, and no other key
\* event: for every remote and keycode as many as there are such keymaps.
C4_OneKeyDownPerMatch ==
    last.op = "translate" =>
        /\ \A i \in 1 .. Len(events) :
              events[i].type = "key" =>
                  events[i].value = 1 /\ Live(events[i].dev)
        /\ \A g \in GroupNames :
              /\ Len(KeyEventsOn(events, g)) =
                    Cardinality({e \in LiveEntries(g) :
                                    TupleEquals(g, e, last.sig)})
              /\ \A k \in Keys :
                    Len(SelectSeq(KeyEventsOn(events, g),
                                  LAMBDA ev : ev.code = k)) =
                    Cardinality({e \in LiveEntries(g) :
                                    /\ TupleEquals(g, e, last.sig)
                                    /\ keymap[g][e].keycode = k})

\* C4 witness: two key-downs on g1 (two matching keymaps: the scan went on
\* after the first match) and one on g2.
C4_Witness ==
    /\ last.op = "translate"
    /\ Len(KeyEventsOn(events, "g1")) = 2
    /\ Len(KeyEventsOn(events, "g2")) = 1

\* C5: a keymap whose keycode was never written causes no key event: the
\* key events on a remote are as many as its matching keymaps with a written
\* keycode.
C5_UnsetKeycodeNeverEmits ==
    last.op = "translate" =>
        \A g \in GroupNames :
            Len(KeyEventsOn(events, g)) =
                Cardinality({e \in LiveEntries(g) :
                                /\ TupleEquals(g, e, last.sig)
                                /\ keymap[g][e].written})

\* C8: once remove_group(g) has returned, g and its keymaps are gone, no key
\* bit is left, and the input device is unregistered and freed.
C8_RemoveGroupCascades ==
    (last.op = "remove_group" /\ ret.err = "OK") =>
        /\ ~Live(last.g)
        /\ children[last.g] = << >>
        /\ input[last.g].keybit = {}
        /\ ~input[last.g].alloc
        /\ ~remoteMem[last.g]
        /\ last.g \notin input_dev_list

\* The call that ran last was create_group of a free name, and the device
\* allocation or registration inside make_remote failed.
CreateGroupFailedInside ==
    /\ last'.op = "create_group"
    /\ ~Live(last'.g)
    /\ last'.outcome \in {"nomem_input", "reg_fail"}

\* C9: when input_register_device (or input_allocate_device) fails,
\* create_group returns that error, adds no group, and leaves neither the
\* remote nor an input device allocated or registered.
C9_FailedCreateReleasesAll ==
    [][CreateGroupFailedInside =>
          /\ ret'.err = (IF last'.outcome = "reg_fail" THEN "EREG"
                         ELSE "ENOMEM")
          /\ cg_children' = cg_children
          /\ input_dev_list' = input_dev_list
          /\ ~remoteMem'[last'.g]
          /\ ~input'[last'.g].alloc
          /\ children' = children /\ keymap' = keymap]_vars

\* C9 witness: a create_group that failed at registration, beside a live
\* remote that it left alone.
C9_Witness ==
    /\ last.op = "create_group"
    /\ last.outcome = "reg_fail"
    /\ ret.err = "EREG"
    /\ cg_children # << >>

NoDuplicates(list) ==
    \A i, j \in 1 .. Len(list) : list[i] = list[j] => i = j

\* C10: create_group of a name in use fails with EEXIST and changes nothing,
\* so no two live remotes share a name.
C10_GroupNamesUnique ==
    [][/\ (last'.op = "create_group" /\ Live(last'.g)) =>
             (ret'.err = "EEXIST" /\ UNCHANGED tree)
       /\ NoDuplicates(cg_children')]_vars

\* C10 witness: a second create_group of a live name was refused.
C10_Witness ==
    /\ last.op = "create_group"
    /\ ret.err = "EEXIST"
    /\ Live(last.g)

\* The number a page of digits (with or without a closing newline) writes,
\* as a mathematical integer; -1 for any other page.
RECURSIVE NumeralValue(_, _, _)
NumeralValue(page, i, acc) ==
    IF i > Len(page) THEN acc
    ELSE IF page[i] = "\n" /\ i = Len(page) /\ i > 1 THEN acc
    ELSE IF IsDigit(page[i])
    THEN NumeralValue(page, i + 1, acc * 10 + DigitVal(page[i]))
    ELSE -1
PageValue(page) == IF page = << >> THEN -1 ELSE NumeralValue(page, 1, 0)

\* The step is a read of the attribute that the call before it wrote with
\* success, the page written being the numeral of a value in 0..INT_MAX.
ReadsBackAcceptedWrite ==
    /\ last'.op = "show"
    /\ last.op = "store"
    /\ ret.err = "OK"
    /\ last'.g = last.g /\ last'.e = last.e /\ last'.attr = last.attr
    /\ PageValue(last.page) \in 0 .. INT_MAX

Malformed(page) == PageValue(page) = -1

\* C12: a write of a malformed page fails with EINVAL (InvalidFormat), a
\* write of a value above INT_MAX fails with ERANGE (OutOfRange), and in
\* both cases no field of any entry and no capability bit changes.
C12_BadWritesRejectedUnchanged ==
    [][last'.op = "store" =>
          /\ Malformed(last'.page) =>
                ret'.err = "EINVAL" /\ UNCHANGED tree
          /\ PageValue(last'.page) > INT_MAX =>
                ret'.err = "ERANGE" /\ UNCHANGED tree]_vars


\* C13: every key event translate reports is a key-down (value 1) and the
\* event right after it is a sync on the same input device; no key event
\* with value 0 (release) is reported.
C13_KeyDownThenSync ==
    last.op = "translate" =>
        \A i \in 1 .. Len(events) :
            events[i].type = "key" =>
                /\ events[i].value = 1
                /\ i < Len(events)
                /\ events[i + 1].type = "sync"
                /\ events[i + 1].dev = events[i].dev

\* C13 witness: a translate that reported two key events in a row on one
\* remote, each with its sync.
C13_Witness ==
    /\ last.op = "translate"
    /\ \E i \in 1 .. Len(events) :
          /\ i + 3 <= Len(events)
          /\ events[i].type = "key"
          /\ events[i + 2].type = "key"
          /\ events[i + 2].dev = events[i].dev
          /\ events[i + 3].type = "sync"


\* C14: removing a keymap whose keycode was never written leaves the keybit
\* of its remote's input device as it was.
C14_RemoveUnsetEntryKeepsBits ==
    [][/\ last'.op = "remove_entry"
       /\ ret'.err = "OK"
       /\ ~keymap[last'.g][last'.e].written
       => input'[last'.g].keybit = input[last'.g].keybit]_vars


\* The keymap e of g with the tuple field attr replaced by v and nothing else.
WithField(g, e, attr, v) ==
    CASE attr = "protocol" -> [keymap EXCEPT ![g][e].protocol = v]
      [] attr = "device" -> [keymap EXCEPT ![g][e].device = v]
      [] attr = "command" -> [keymap EXCEPT ![g][e].command = v]

\* C18: a successful write to protocol, device or command assigns that one
\* field of that one keymap the value written; the keymap's other fields,
\* every other keymap, every keybit and the lists stay as they were.
C18_TupleWriteAssignsOneField ==
    [][/\ last'.op = "store"
       /\ ret'.err = "OK"
       /\ last'.attr \in {"protocol", "device", "command"}
       => /\ \E v \in 0 .. INT_MAX :
                /\ keymap' = WithField(last'.g, last'.e, last'.attr, v)
                /\ PageValue(last'.page) >= 0 => v = PageValue(last'.page)
          /\ UNCHANGED << cg_children, remoteMem, children, input,
                          input_dev_list >>]_vars

\* C18 witness: a write of 1 to device went through on a keymap whose
\* keycode is written and whose remote holds another keymap.
C18_Witness ==
    /\ last.op = "store"
    /\ last.attr = "device"
    /\ ret.err = "OK"
    /\ keymap[last.g][last.e].device = 1
    /\ keymap[last.g][last.e].written
    /\ keymap[last.g][last.e].keycode = 2
    /\ Len(children[last.g]) = 2


\* C19: every live keymap has its keycode in 0..KEY_MAX-1 and its protocol,
\* device and command in 0..INT_MAX; a keymap just made holds 0 in all four;
\* and a translate called with a negative protocol, device or command
\* reports no key event.
C19_FieldsInDomain ==
    /\ \A g \in GroupNames : \A e \in LiveEntries(g) :
          /\ keymap[g][e].keycode \in 0 .. KEY_MAX - 1
          /\ keymap[g][e].protocol \in 0 .. INT_MAX
          /\ keymap[g][e].device \in 0 .. INT_MAX
          /\ keymap[g][e].command \in 0 .. INT_MAX
    /\ (last.op = "create_entry" /\ ret.err = "OK") =>
          /\ keymap[last.g][last.e].keycode = 0
          /\ keymap[last.g][last.e].protocol = 0
          /\ keymap[last.g][last.e].device = 0
          /\ keymap[last.g][last.e].command = 0
    /\ (last.op = "translate" /\ \E i \in 1 .. 3 : last.sig[i] < 0) =>
          \A i \in 1 .. Len(events) : events[i].type # "key"

\* C19 witness: a translate with a negative device has run over a live
\* keymap with protocol 1 and keycode 2 and has reported the raw event only.
C19_Witness ==
    /\ last.op = "translate"
    /\ last.sig[2] < 0
    /\ Len(events) = 4
    /\ \E g \in GroupNames : \E e \in LiveEntries(g) :
          keymap[g][e].protocol = 1 /\ keymap[g][e].keycode = 2


\* ------------------------------------ ConcSpec: the handlers, step by step
\*
\* The configfs caller runs one call at a time.  mkdir and rmdir hold su_mutex
\* around the make_/release callbacks and the list update; an attribute write
\* reaches item_store with su_mutex not held, and item_store takes no lock.

ConcKeycodePages == { <<"1">>, <<"2">>, <<"3">>, <<"x">> }
ConcTuplePages == { <<"1">>, <<"8">> }
ConcPagesOf(attr) ==
    IF attr = "keycode" THEN ConcKeycodePages ELSE ConcTuplePages
ConcSignals == { <<0, 0, 0>>, <<1, 0, 0>> }

conc_unchanged == << last, ret, events, page_out >>

CfsAt(pc) == [cfs EXCEPT !.pc = pc]

CfsStart(pc, g, e, attr, tmp, outcome) ==
    /\ cfs.pc = "idle"
    /\ nops < MaxCfsCalls
    /\ nops' = nops + 1
    /\ cfs' = [pc |-> pc, g |-> g, e |-> e, attr |-> attr, tmp |-> tmp,
               outcome |-> outcome]

\* mutex_lock(&su_mutex) returns once the mutex is free, holding it.
ConfigfsMayLock(m) == m = "free"
TranslateMayLockAlways(m) == TRUE
TranslateMayLockShared(m) == m # "cfs"
TranslateMayLock(m) == m = "free"

\* mutex_unlock(&su_mutex) at the end of input_ir_translate.
TranslateUnlockMissing(m) == m
TranslateUnlock(m) == "free"

\* write(remotes/g/e/attr, page): item_store up to its first shared access.
\* Parsing and the range checks touch only the page and locals.
c_store_begin(g, e, attr, page) ==
    /\ LiveEntry(g, e)
    /\ LET r == simple_strtoul(page) IN
       IF TrailingGarbage(page, r.endp) \/ OverIntMax(r.val)
          \/ (attr = "keycode" /\ ~KeycodeInRange(r.val))
       THEN CfsStart("idle", "-", "-", "-", 0, "-")
       ELSE CfsStart(IF attr = "keycode" THEN "store_set_bit"
                     ELSE "store_assign", g, e, attr, r.val, "-")
    /\ UNCHANGED << tree, su_mutex, tr, ntr, conc_unchanged >>

\* keymap->protocol = tmp (or device, or command)
c_store_assign ==
    /\ cfs.pc = "store_assign"
    /\ keymap' = [keymap EXCEPT ![cfs.g][cfs.e] =
                     StoreField(@, input[cfs.g], cfs.attr, cfs.tmp).km]
    /\ cfs' = CfsIdle
    /\ UNCHANGED << cg_children, remoteMem, children, input, input_dev_list,
                    su_mutex, tr, nops, ntr, conc_unchanged >>

\* set_bit(tmp, remote->input->keybit)
c_store_set_bit ==
    /\ cfs.pc = "store_set_bit"
    /\ input' = [input EXCEPT ![cfs.g] = set_bit(cfs.tmp, @)]
    /\ cfs' = CfsAt("store_keycode")
    /\ UNCHANGED << cg_children, remoteMem, children, keymap, input_dev_list,
                    su_mutex, tr, nops, ntr, conc_unchanged >>

\* keymap->keycode = tmp
c_store_keycode ==
    /\ cfs.pc = "store_keycode"
    /\ keymap' = [keymap EXCEPT ![cfs.g][cfs.e] =
                     [@ EXCEPT !.keycode = ToInt(cfs.tmp), !.written = TRUE]]
    /\ cfs' = CfsIdle
    /\ UNCHANGED << cg_children, remoteMem, children, input, input_dev_list,
                    su_mutex, tr, nops, ntr, conc_unchanged >>

\* mkdir remotes/g: fails at once on a name in use, else goes for su_mutex.
c_mkdir_group_begin(g, outcome) ==
    /\ IF NameTaken(cg_children, g)
       THEN CfsStart("idle", "-", "-", "-", 0, "-")
       ELSE CfsStart("mk_lock", g, "-", "-", 0, outcome)
    /\ UNCHANGED << tree, su_mutex, tr, ntr, conc_unchanged >>

c_mkdir_group_lock ==
    /\ cfs.pc = "mk_lock"
    /\ ConfigfsMayLock(su_mutex)
    /\ su_mutex' = "cfs"
    /\ cfs' = CfsAt("mk_kzalloc")
    /\ UNCHANGED << tree, tr, nops, ntr, conc_unchanged >>

\* make_remote: remote = kzalloc(...)
c_make_remote_kzalloc ==
    /\ cfs.pc = "mk_kzalloc"
    /\ IF cfs.outcome = "nomem_remote"
       THEN /\ cfs' = CfsAt("unlock")
            /\ UNCHANGED remoteMem
       ELSE /\ cfs' = CfsAt("mk_input")
            /\ remoteMem' = [remoteMem EXCEPT ![cfs.g] = TRUE]
    /\ UNCHANGED << cg_children, children, keymap, input, input_dev_list,
                    su_mutex, tr, nops, ntr, conc_unchanged >>

\* make_remote: remote->input = input_allocate_device(); on failure free_mem
c_make_remote_input ==
    /\ cfs.pc = "mk_input"
    /\ IF cfs.outcome = "nomem_input"
       THEN /\ cfs' = CfsAt("unlock")
            /\ remoteMem' = [remoteMem EXCEPT ![cfs.g] = FALSE]
            /\ UNCHANGED input
       ELSE /\ cfs' = CfsAt("mk_register")
            /\ input' = [input EXCEPT ![cfs.g] = input_allocate_device]
            /\ UNCHANGED remoteMem
    /\ UNCHANGED << cg_children, children, keymap, input_dev_list,
                    su_mutex, tr, nops, ntr, conc_unchanged >>

\* make_remote: input_register_device(); on failure free_input, free_mem
c_make_remote_register ==
    /\ cfs.pc = "mk_register"
    /\ IF cfs.outcome = "reg_fail"
       THEN /\ cfs' = CfsAt("unlock")
            /\ input' = [input EXCEPT ![cfs.g] = free_input(@)]
            /\ remoteMem' = [remoteMem EXCEPT ![cfs.g] = FALSE]
            /\ UNCHANGED input_dev_list
       ELSE /\ cfs' = CfsAt("mk_link")
            /\ input_dev_list' = input_dev_list \cup {cfs.g}
            /\ UNCHANGED << input, remoteMem >>
    /\ UNCHANGED << cg_children, children, keymap,
                    su_mutex, tr, nops, ntr, conc_unchanged >>

\* make_remote returned the group: configfs links it into remotes.
c_mkdir_group_link ==
    /\ cfs.pc = "mk_link"
    /\ cg_children' = Append(cg_children, cfs.g)
    /\ cfs' = CfsAt("unlock")
    /\ UNCHANGED << remoteMem, children, keymap, input, input_dev_list,
                    su_mutex, tr, nops, ntr, conc_unchanged >>

\* The end of every mkdir and rmdir.
c_unlock ==
    /\ cfs.pc = "unlock"
    /\ su_mutex' = "free"
    /\ cfs' = CfsIdle
    /\ UNCHANGED << tree, tr, nops, ntr, conc_unchanged >>

\* rmdir remotes/g
c_rmdir_group_begin(g) ==
    /\ IF ~Live(g)
       THEN CfsStart("idle", "-", "-", "-", 0, "-")
       ELSE CfsStart("rm_lock", g, "-", "-", 0, "-")
    /\ UNCHANGED << tree, su_mutex, tr, ntr, conc_unchanged >>

c_rmdir_group_lock ==
    /\ cfs.pc = "rm_lock"
    /\ ConfigfsMayLock(su_mutex)
    /\ su_mutex' = "cfs"
    /\ cfs' = CfsAt("rm_items")
    /\ UNCHANGED << tree, tr, nops, ntr, conc_unchanged >>

\* Teardown: keymap_release of the first keymap left, until none is.
c_rmdir_group_items ==
    /\ cfs.pc = "rm_items"
    /\ IF children[cfs.g] = << >>
       THEN /\ cfs' = CfsAt("rm_release")
            /\ UNCHANGED << children, keymap, input >>
       ELSE LET e == Head(children[cfs.g]) IN
            /\ input' = [input EXCEPT ![cfs.g] =
                            keymap_release(keymap[cfs.g][e], @)]
            /\ keymap' = [keymap EXCEPT ![cfs.g][e] = ZeroKeymap]
            /\ children' = [children EXCEPT ![cfs.g] = Tail(@)]
            /\ UNCHANGED cfs
    /\ UNCHANGED << cg_children, remoteMem, input_dev_list,
                    su_mutex, tr, nops, ntr, conc_unchanged >>

\* remote_release
c_remote_release ==
    /\ cfs.pc = "rm_release"
    /\ LET r == remote_release(input[cfs.g]) IN
       /\ input' = [input EXCEPT ![cfs.g] = r.dev]
       /\ remoteMem' = [remoteMem EXCEPT ![cfs.g] = r.mem]
    /\ cfs' = CfsAt("rm_unlink")
    /\ UNCHANGED << cg_children, children, keymap, input_dev_list,
                    su_mutex, tr, nops, ntr, conc_unchanged >>

c_rmdir_group_unlink ==
    /\ cfs.pc = "rm_unlink"
    /\ cg_children' = Remove(cg_children, cfs.g)
    /\ cfs' = CfsAt("unlock")
    /\ UNCHANGED << remoteMem, children, keymap, input, input_dev_list,
                    su_mutex, tr, nops, ntr, conc_unchanged >>

\* mkdir remotes/g/e
c_mkdir_entry_begin(g, e, outcome) ==
    /\ Live(g)
    /\ IF NameTaken(children[g], e)
       THEN CfsStart("idle", "-", "-", "-", 0, "-")
       ELSE CfsStart("mke_lock", g, e, "-", 0, outcome)
    /\ UNCHANGED << tree, su_mutex, tr, ntr, conc_unchanged >>

c_mkdir_entry_lock ==
    /\ cfs.pc = "mke_lock"
    /\ ConfigfsMayLock(su_mutex)
    /\ su_mutex' = "cfs"
    /\ cfs' = CfsAt("mke_make")
    /\ UNCHANGED << tree, tr, nops, ntr, conc_unchanged >>

\* make_keymap, and the link into the remote's list
c_make_keymap ==
    /\ cfs.pc = "mke_make"
    /\ LET r == make_keymap(cfs.outcome) IN
       /\ keymap' = [keymap EXCEPT ![cfs.g][cfs.e] = ZeroKeymap]
       /\ children' =
             IF r.made THEN [children EXCEPT ![cfs.g] = Append(@, cfs.e)]
             ELSE children
    /\ cfs' = CfsAt("unlock")
    /\ UNCHANGED << cg_children, remoteMem, input, input_dev_list,
                    su_mutex, tr, nops, ntr, conc_unchanged >>

\* rmdir remotes/g/e
c_rmdir_entry_begin(g, e) ==
    /\ Live(g)
    /\ IF ~LiveEntry(g, e)
       THEN CfsStart("idle", "-", "-", "-", 0, "-")
       ELSE CfsStart("rme_lock", g, e, "-", 0, "-")
    /\ UNCHANGED << tree, su_mutex, tr, ntr, conc_unchanged >>

c_rmdir_entry_lock ==
    /\ cfs.pc = "rme_lock"
    /\ ConfigfsMayLock(su_mutex)
    /\ su_mutex' = "cfs"
    /\ cfs' = CfsAt("rme_release")
    /\ UNCHANGED << tree, tr, nops, ntr, conc_unchanged >>

\* keymap_release, and the unlink from the remote's list
c_keymap_release ==
    /\ cfs.pc = "rme_release"
    /\ input' = [input EXCEPT ![cfs.g] =
                    keymap_release(keymap[cfs.g][cfs.e], @)]
    /\ keymap' = [keymap EXCEPT ![cfs.g][cfs.e] = ZeroKeymap]
    /\ children' = [children EXCEPT ![cfs.g] = Remove(@, cfs.e)]
    /\ cfs' = CfsAt("unlock")
    /\ UNCHANGED << cg_children, remoteMem, input_dev_list,
                    su_mutex, tr, nops, ntr, conc_unchanged >>

\* input_ir_translate: the raw IR event on the receiving device.
t_report_ir(t, sig) ==
    /\ tr[t].pc = "idle"
    /\ ntr < MaxTrCalls
    /\ ntr' = ntr + 1
    /\ tr' = [tr EXCEPT ![t] =
                 [pc |-> "lock", sig |-> sig, gi |-> 0, ji |-> 0,
                  evs |-> RawReport(sig[1], sig[2], sig[3])]]
    /\ UNCHANGED << tree, su_mutex, cfs, nops, conc_unchanged >>

\* mutex_lock(&input_ir_remotes.su_mutex)
t_lock(t) ==
    /\ tr[t].pc = "lock"
    /\ TranslateMayLock(su_mutex)
    /\ su_mutex' = t
    /\ tr' = [tr EXCEPT ![t].pc = "scan", ![t].gi = 1, ![t].ji = 1]
    /\ UNCHANGED << tree, cfs, nops, ntr, conc_unchanged >>

\* The remote and the keymap the scan of t stands at.
ScanGroup(t) == cg_children[tr[t].gi]
ScanEntry(t) == children[ScanGroup(t)][tr[t].ji]
AtEntry(t) ==
    /\ tr[t].pc = "scan"
    /\ tr[t].gi <= Len(cg_children)
    /\ tr[t].ji <= Len(children[ScanGroup(t)])

\* One turn of the loops: the end of the outer list, the end of an inner
\* list, or the body for one keymap.
t_scan(t) ==
    /\ tr[t].pc = "scan"
    /\ IF tr[t].gi > Len(cg_children)
       THEN tr' = [tr EXCEPT ![t].pc = "unlock"]
       ELSE IF tr[t].ji > Len(children[ScanGroup(t)])
       THEN tr' = [tr EXCEPT ![t].gi = @ + 1, ![t].ji = 1]
       ELSE tr' = [tr EXCEPT
                      ![t].ji = @ + 1,
                      ![t].evs = @ \o ReportFor(ScanGroup(t),
                                     keymap[ScanGroup(t)][ScanEntry(t)],
                                     tr[t].sig[1], tr[t].sig[2], tr[t].sig[3])]
    /\ UNCHANGED << tree, su_mutex, cfs, nops, ntr, conc_unchanged >>

\* mutex_unlock(&input_ir_remotes.su_mutex), and the return
t_unlock(t) ==
    /\ tr[t].pc = "unlock"
    /\ su_mutex' = TranslateUnlock(su_mutex)
    /\ tr' = [tr EXCEPT ![t] = TrIdle]
    /\ UNCHANGED << tree, cfs, nops, ntr, conc_unchanged >>

ConcNext ==
    \/ \E g \in GroupNames, e \in EntryNames, attr \in Attrs :
          \E page \in ConcPagesOf(attr) : c_store_begin(g, e, attr, page)
    \/ c_store_assign
    \/ c_store_set_bit
    \/ c_store_keycode
    \/ \E g \in GroupNames, o \in MakeRemoteOutcomes : c_mkdir_group_begin(g, o)
    \/ c_mkdir_group_lock
    \/ c_make_remote_kzalloc
    \/ c_make_remote_input
    \/ c_make_remote_register
    \/ c_mkdir_group_link
    \/ c_unlock
    \/ \E g \in GroupNames : c_rmdir_group_begin(g)
    \/ c_rmdir_group_lock
    \/ c_rmdir_group_items
    \/ c_remote_release
    \/ c_rmdir_group_unlink
    \/ \E g \in GroupNames, e \in EntryNames, o \in MakeKeymapOutcomes :
          c_mkdir_entry_begin(g, e, o)
    \/ c_mkdir_entry_lock
    \/ c_make_keymap
    \/ \E g \in GroupNames, e \in EntryNames : c_rmdir_entry_begin(g, e)
    \/ c_rmdir_entry_lock
    \/ c_keymap_release
    \/ \E t \in Translators, sig \in ConcSignals : t_report_ir(t, sig)
    \/ \E t \in Translators : t_lock(t)
    \/ \E t \in Translators : t_scan(t)
    \/ \E t \in Translators : t_unlock(t)

ConcSpec == Init /\ [][ConcNext]_vars

\* A call of the configfs caller that is under way takes its next step.
CfsStep ==
    \/ c_store_assign
    \/ c_store_set_bit
    \/ c_store_keycode
    \/ c_mkdir_group_lock
    \/ c_make_remote_kzalloc
    \/ c_make_remote_input
    \/ c_make_remote_register
    \/ c_mkdir_group_link
    \/ c_unlock
    \/ c_rmdir_group_lock
    \/ c_rmdir_group_items
    \/ c_remote_release
    \/ c_rmdir_group_unlink
    \/ c_mkdir_entry_lock
    \/ c_make_keymap
    \/ c_rmdir_entry_lock
    \/ c_keymap_release

\* The scheduler runs every thread that can take a step: a call under way
\* is not suspended for ever. New calls need not arrive.
FairConcSpec ==
    /\ ConcSpec
    /\ WF_vars(CfsStep)
    /\ \A t \in Translators :
          WF_vars(t_lock(t)) /\ WF_vars(t_scan(t)) /\ WF_vars(t_unlock(t))


\* ============================================== properties, under ConcSpec

\* The step is the loop body of t's scan, run on the keymap e of remote g.
ReadsEntry(t, g, e) ==
    /\ AtEntry(t)
    /\ ScanGroup(t) = g
    /\ ScanEntry(t) = e
    /\ tr'[t].ji = tr[t].ji + 1

\* A keycode write to keymap e of g is half done: item_store has set the new
\* bit in the keybit and has not yet assigned the keycode field, which still
\* holds the old value.
KeycodeWriteHalfDone(g, e) ==
    /\ cfs.pc = "store_keycode"
    /\ cfs.g = g
    /\ cfs.e = e
    /\ cfs.tmp \in input[g].keybit
    /\ keymap[g][e].keycode # cfs.tmp

\* C6: translate reads no keymap while a keycode write to it is half done
\* (a write to protocol, device or command is one assignment, which a read
\* falls before or after).
C6_NoReadOfHalfDoneWrite ==
    [][\A t \in Translators, g \in GroupNames, e \in EntryNames :
          ReadsEntry(t, g, e) => ~KeycodeWriteHalfDone(g, e)]_vars

\* Remote g is whole: linked, its memory and input device allocated, the
\* device registered, and no mkdir or rmdir of g is between its lock and its
\* last change.
Whole(g) ==
    /\ Live(g)
    /\ remoteMem[g]
    /\ input[g].alloc
    /\ g \in input_dev_list
    /\ ~(/\ cfs.g = g
         /\ cfs.pc \in {"mk_kzalloc", "mk_input", "mk_register", "mk_link",
                        "rm_items", "rm_release", "rm_unlink"})

\* The step is t reporting a key event on remote g.
EmitsKeyOn(t, g) ==
    /\ AtEntry(t)
    /\ ScanGroup(t) = g
    /\ Len(tr'[t].evs) > Len(tr[t].evs)

\* A call is under way.
Busy == cfs.pc # "idle" \/ \E t \in Translators : tr[t].pc # "idle"

\* C7: with translate calls running beside create_group and remove_group,
\* some call under way can always take its next step (no deadlock), and a key
\* event is reported only on a remote that is whole, before and after.
C7_NoDeadlockNoHalfBuiltMatch ==
    /\ [](Busy => ENABLED ConcNext)
    /\ [][\A t \in Translators, g \in GroupNames :
             EmitsKeyOn(t, g) => (Whole(g) /\ Whole(g)')]_vars

\* C7 witness: a translate in its scan has reported a key event while a
\* create_group or remove_group waits for su_mutex.
C7_Witness ==
    /\ cfs.pc \in {"mk_lock", "rm_lock"}
    /\ \E t \in Translators :
          /\ tr[t].pc = "scan"
          /\ su_mutex = t
          /\ \E i \in 1 .. Len(tr[t].evs) : tr[t].evs[i].type = "key"

\* Translator t is inside its scan of the remotes and keymaps.
InScan(t) == tr[t].pc = "scan"

\* A create_group, remove_group, create_entry or remove_entry is between
\* taking su_mutex and its last change.
StructuralMutation ==
    cfs.pc \in {"mk_kzalloc", "mk_input", "mk_register", "mk_link",
                "rm_items", "rm_release", "rm_unlink", "mke_make",
                "rme_release"}

\* A keycode write is between its two changes (the bit and the field).
KeycodeWriteMidway == cfs.pc = "store_keycode"

\* C15: no create_group, remove_group, create_entry, remove_entry or keycode
\* write is in the middle of its modification while a translate is inside
\* its scan.
C15_NoMutationDuringScan ==
    \A t \in Translators :
        InScan(t) => ~(StructuralMutation \/ KeycodeWriteMidway)


\* C16: a translate holds su_mutex from the start of its scan up to its
\* unlock, gives it up at that unlock and at no other step, and does not
\* hold it before its lock or after its return; every translate that has
\* started returns.
C16_TranslateHoldsThenReleases ==
    /\ [](\A t \in Translators :
             /\ tr[t].pc \in {"scan", "unlock"} => su_mutex = t
             /\ tr[t].pc \in {"idle", "lock"} => su_mutex # t)
    /\ [][\A t \in Translators :
             (su_mutex = t /\ su_mutex' # t) =>
                 (tr[t].pc = "unlock" /\ tr'[t].pc = "idle"
                  /\ su_mutex' = "free")]_vars
    /\ \A t \in Translators : (tr[t].pc # "idle") ~> (tr[t].pc = "idle")

\* C16 witness: a translate has finished a scan that reported a key event
\* and stands at its unlock, holding su_mutex, while the other translate
\* waits for it.
C16_Witness ==
    \E t \in Translators, u \in Translators :
        /\ tr[t].pc = "unlock"
        /\ su_mutex = t
        /\ \E i \in 1 .. Len(tr[t].evs) : tr[t].evs[i].type = "key"
        /\ tr[u].pc = "lock"


\* Translator t holds su_mutex for its scan.
Scanning(t) == tr[t].pc \in {"scan", "unlock"}

\* Translator t waits at its mutex_lock while translator u holds su_mutex.
WaitsBehind(t, u) == t # u /\ tr[t].pc = "lock" /\ su_mutex = u

\* C17 as claimed: translates share su_mutex, so a translate waiting at its
\* lock while another translate scans can take the lock and scan beside it;
\* and no scan overlaps a structural mutation.
C17_TranslatorsScanTogether ==
    /\ \A t \in Translators, u \in Translators :
          WaitsBehind(t, u) => ENABLED t_lock(t)
    /\ \A t \in Translators : InScan(t) => ~StructuralMutation

\* C17 as amended: su_mutex is exclusive among translates too: no two of
\* them hold it for their scans at the same time, a translate waiting
\* behind another cannot take the lock; and no scan overlaps a structural
\* mutation.
C17_ScansMutuallyExclusive ==
    /\ \A t \in Translators, u \in Translators :
          /\ (t # u /\ Scanning(t)) => ~Scanning(u)
          /\ WaitsBehind(t, u) => ~ENABLED t_lock(t)
    /\ \A t \in Translators : InScan(t) => ~StructuralMutation

\* C17 witness: one translate is inside its scan, at a keymap, and the other
\* has reported its raw event and waits for su_mutex.
C17_Witness ==
    \E t \in Translators, u \in Translators :
        /\ WaitsBehind(t, u)
        /\ AtEntry(u)


\* The events a translate of sig has reported start with the raw IR event on
\* the receiving device: protocol, device, command, sync, in this order.
StartsWithRawEvent(evs, sig) ==
    /\ Len(evs) >= 4
    /\ evs[1].type = "ir" /\ evs[1].code = "IR_PROTOCOL"
    /\ evs[1].value = sig[1]
    /\ evs[2].type = "ir" /\ evs[2].code = "IR_DEVICE"
    /\ evs[2].value = sig[2]
    /\ evs[3].type = "ir" /\ evs[3].code = "IR_COMMAND"
    /\ evs[3].value = sig[3]
    /\ evs[4].type = "sync"
    /\ \A i \in 1 .. 4 : evs[i].dev = "ir"

\* C20: a translate that has started has reported the raw IR event first;
\* when it stands at its mutex_lock, not holding su_mutex, that is all it has
\* reported; every key event comes after it; and a translate can start and
\* report the raw event whoever holds su_mutex.
C20_RawEventFirst ==
    \A t \in Translators :
        /\ tr[t].pc # "idle" =>
              /\ StartsWithRawEvent(tr[t].evs, tr[t].sig)
              /\ \A i \in 1 .. Len(tr[t].evs) :
                    tr[t].evs[i].type = "key" => i > 4
        /\ tr[t].pc = "lock" => (Len(tr[t].evs) = 4 /\ su_mutex # t)
        /\ (tr[t].pc = "idle" /\ ntr < MaxTrCalls) =>
              ENABLED (\E sig \in ConcSignals : t_report_ir(t, sig))

\* C20 witness: a translate has reported the raw event and waits at its
\* mutex_lock while a create_group or remove_group holds su_mutex.
C20_Witness ==
    \E t \in Translators :
        /\ tr[t].pc = "lock"
        /\ tr[t].sig = <<1, 0, 0>>
        /\ Len(tr[t].evs) = 4
        /\ su_mutex = "cfs"
        /\ StructuralMutation


====
